---------------------------- MODULE Spec2Model ----------------------------
(***************************************************************************)
(* Model of src/src/icosphere.rs: create_icosahedron (the brute-force face *)
(* search over the 12 golden-ratio vertices with its winding heuristic)    *)
(* and icosphere (size prologue, edge-midpoint cache, subdivision loops).  *)
(*                                                                         *)
(* f32 values are modelled as fixed-point integers with FracBits           *)
(* fractional bits; every arithmetic operation rounds its result to the    *)
(* nearest representable value, as every f32 operation does.  usize values *)
(* of the size prologue are modelled as four 16-bit limbs (64 bits), so    *)
(* that overflow and wrap-around are computed, not assumed.                *)
(***************************************************************************)
EXTENDS Integers, Sequences, FiniteSets, Bags, TLC

(* ------------------------------ bounds -------------------------------- *)

\* Largest subdivision level whose run is explored to its return.
MaxLevel == 2

\* Fractional bits of the fixed-point stand-in for f32.
FracBits == 12

\* Tolerance of the radius comparison, in units of 2^-FracBits.
MagEps == 4

(* ------------------------- fixed-point "f32" -------------------------- *)

Scale == 2^FracBits

Abs(x) == IF x < 0 THEN -x ELSE x

\* a / b rounded to the nearest integer (ties away from zero), b > 0.
RDiv(a, b) ==
    IF a >= 0 THEN (a + b \div 2) \div b ELSE -(((-a) + b \div 2) \div b)

FMul(a, b) == RDiv(a * b, Scale)

FDiv(a, b) == IF b > 0 THEN RDiv(a * Scale, b) ELSE -RDiv(a * Scale, -b)

RECURSIVE SqrtSearch(_, _, _)
\* Largest s in lo..hi with s*s <= n  (lo*lo <= n < (hi+1)*(hi+1)).
SqrtSearch(n, lo, hi) ==
    IF lo = hi THEN lo
    ELSE LET mid == (lo + hi + 1) \div 2
         IN  IF mid * mid <= n THEN SqrtSearch(n, mid, hi)
             ELSE SqrtSearch(n, lo, mid - 1)

ISqrt(n) == SqrtSearch(n, 0, 32767)

\* f32::sqrt: the square root of a, rounded to the nearest value.
FSqrt(a) ==
    LET n == a * Scale
        s == ISqrt(n)
    IN  IF n - s * s > s THEN s + 1 ELSE s

F(n) == n * Scale

(* ------------------------- cgmath::Vector3<f32> ----------------------- *)

VAdd(a, b) == <<a[1] + b[1], a[2] + b[2], a[3] + b[3]>>

VSub(a, b) == <<a[1] - b[1], a[2] - b[2], a[3] - b[3]>>

VScale(s, a) == <<FMul(s, a[1]), FMul(s, a[2]), FMul(s, a[3])>>

Dot(a, b) == FMul(a[1], b[1]) + FMul(a[2], b[2]) + FMul(a[3], b[3])

Magnitude(a) == FSqrt(Dot(a, a))

Cross(a, b) ==
    << FMul(a[2], b[3]) - FMul(a[3], b[2]),
       FMul(a[3], b[1]) - FMul(a[1], b[3]),
       FMul(a[1], b[2]) - FMul(a[2], b[1]) >>

\* InnerSpace::normalize_to: self * (magnitude / self.magnitude()).
NormalizeTo(a, magnitude) == VScale(FDiv(magnitude, Magnitude(a)), a)

\* f32::is_sign_positive.  Fixed point has no negative zero; in
\* create_icosahedron a zero cross component only meets a zero expected
\* component, which the == 0. test decides before the sign is read.
IsSignPositive(x) == x >= 0

(* ------------------------- create_icosahedron ------------------------- *)

tau == FDiv(F(1) + FSqrt(F(5)), F(2))

BaseVertices ==
    << <<F(1), tau, 0>>,  <<F(1), -tau, 0>>, <<-F(1), -tau, 0>>, <<-F(1), tau, 0>>,
       <<0, F(1), tau>>,  <<0, F(1), -tau>>, <<0, -F(1), -tau>>, <<0, -F(1), tau>>,
       <<tau, 0, F(1)>>,  <<-tau, 0, F(1)>>, <<-tau, 0, -F(1)>>, <<tau, 0, -F(1)>> >>

\* vertices[n] for a 0-based index n.
At(vs, n) == vs[n + 1]

\* 0.1 as the nearest fixed-point value.
Tolerance == RDiv(Scale, 10)

\* Variant of Equilateral: lines 114-122 without the test of c_magn.
EquilateralTwoSides(vs, i0, j0, k0) ==
    LET a == VSub(At(vs, j0), At(vs, i0))
        b == VSub(At(vs, k0), At(vs, i0))
    IN  /\ Abs(F(2) - Magnitude(a)) < Tolerance
        /\ Abs(F(2) - Magnitude(b)) < Tolerance

\* Lines 114-122: all three pairwise distances are within 0.1 of 2.
Equilateral(vs, i0, j0, k0) ==
    LET a == VSub(At(vs, j0), At(vs, i0))
        b == VSub(At(vs, k0), At(vs, i0))
        c == VSub(At(vs, k0), At(vs, j0))
    IN  /\ Abs(F(2) - Magnitude(a)) < Tolerance
        /\ Abs(F(2) - Magnitude(b)) < Tolerance
        /\ Abs(F(2) - Magnitude(c)) < Tolerance

AxisAgrees(c, e) ==
    \/ (c = 0 /\ e = 0)
    \/ IsSignPositive(c) = IsSignPositive(e)

\* Lines 124-133: the cross product agrees in sign with the outward
\* direction on every axis.
SignsAgree(vs, i0, j0, k0) ==
    LET a        == VSub(At(vs, j0), At(vs, i0))
        b        == VSub(At(vs, k0), At(vs, i0))
        cross    == Cross(a, b)
        expected == VAdd(VAdd(At(vs, i0), At(vs, j0)), At(vs, k0))
    IN  /\ AxisAgrees(cross[1], expected[1])
        /\ AxisAgrees(cross[2], expected[2])
        /\ AxisAgrees(cross[3], expected[3])

\* Variant of EmittedFace: the triple is pushed as found, lines 138-140
\* on both branches.
EmittedFaceNoSwap(vs, i0, j0, k0) == <<i0, j0, k0>>

\* Lines 134-141: the triple as it is pushed.
EmittedFace(vs, i0, j0, k0) ==
    IF SignsAgree(vs, i0, j0, k0) THEN <<i0, k0, j0>> ELSE <<i0, j0, k0>>

(* ------------------------------- usize -------------------------------- *)
\* A usize is four 16-bit limbs, least significant first.  Every operation
\* returns the wrapped value and whether the exact result left the range.

LimbBase == 2^16

U64(n) == <<n % LimbBase, (n \div LimbBase) % LimbBase, 0, 0>>

UMul(x, c) ==
    LET p1 == x[1] * c
        p2 == x[2] * c + p1 \div LimbBase
        p3 == x[3] * c + p2 \div LimbBase
        p4 == x[4] * c + p3 \div LimbBase
    IN  [val |-> <<p1 % LimbBase, p2 % LimbBase, p3 % LimbBase, p4 % LimbBase>>,
         ovf |-> p4 \div LimbBase > 0]

UAdd(x, y) ==
    LET s1 == x[1] + y[1]
        s2 == x[2] + y[2] + s1 \div LimbBase
        s3 == x[3] + y[3] + s2 \div LimbBase
        s4 == x[4] + y[4] + s3 \div LimbBase
    IN  [val |-> <<s1 % LimbBase, s2 % LimbBase, s3 % LimbBase, s4 % LimbBase>>,
         ovf |-> s4 \div LimbBase > 0]

USub(x, y) ==
    LET d1 == x[1] - y[1]
        b1 == IF d1 < 0 THEN 1 ELSE 0
        d2 == x[2] - y[2] - b1
        b2 == IF d2 < 0 THEN 1 ELSE 0
        d3 == x[3] - y[3] - b2
        b3 == IF d3 < 0 THEN 1 ELSE 0
        d4 == x[4] - y[4] - b3
    IN  [val |-> <<d1 % LimbBase, d2 % LimbBase, d3 % LimbBase, d4 % LimbBase>>,
         ovf |-> d4 < 0]

UHalf(x) ==
    << x[1] \div 2 + (x[2] % 2) * (LimbBase \div 2),
       x[2] \div 2 + (x[3] % 2) * (LimbBase \div 2),
       x[3] \div 2 + (x[4] % 2) * (LimbBase \div 2),
       x[4] \div 2 >>

\* value > isize::MAX
ExceedsIsize(x) == x[4] >= LimbBase \div 2

\* value <= u32::MAX
FitsU32(x) == x[3] = 0 /\ x[4] = 0

\* `index as u32`: the low 32 bits of a usize.
AsU32(n) == ((n \div LimbBase) % LimbBase) * LimbBase + (n % LimbBase)

\* 4usize.pow(e): the bit 2e set, or 0 with the overflow noted once the
\* bit leaves the 64.
UPow4(e) ==
    IF 2 * e >= 64 THEN [val |-> <<0, 0, 0, 0>>, ovf |-> TRUE]
    ELSE [val |-> [n \in 1..4 |->
                     IF n = (2 * e) \div 16 + 1 THEN 2^((2 * e) % 16) ELSE 0],
          ovf |-> FALSE]

\* Vec<T>::reserve_exact(additional) on a vector of length len whose
\* capacity is its length: "capacity" when the new capacity or its byte
\* size leaves the range (a panic), "alloc" when the allocator is asked
\* for memory, "none" when nothing is to be reserved.
ReserveExact(len, additional, elem_size) ==
    LET cap   == UAdd(U64(len), additional)
        bytes == UMul(cap.val, elem_size)
    IN  IF additional = U64(0) THEN "none"
        ELSE IF cap.ovf \/ bytes.ovf \/ ExceedsIsize(bytes.val) THEN "capacity"
        ELSE "alloc"

\* Lines 10-18 for a level, a base of n_vertices / n_indices and a build:
\* the sizes and how the prologue ends.  An overflowing operation panics in
\* a debug build and wraps in a release build.
Prologue(lvl, n_vertices, n_indices, bld) ==
    LET num      == 20
        pw       == UPow4(lvl)
        ff       == UMul(pw.val, num)
        ff3      == UMul(ff.val, 3)
        e2       == UAdd(U64(2), UHalf(ff3.val))
        fv       == USub(e2.val, ff.val)
        fi       == UMul(ff.val, 3)
        addv     == USub(fv.val, U64(n_vertices))
        addi     == USub(fi.val, U64(n_indices))
        wrapped  == \/ pw.ovf \/ ff.ovf \/ ff3.ovf \/ e2.ovf \/ fv.ovf
                    \/ fi.ovf \/ addv.ovf \/ addi.ovf
        rv       == ReserveExact(n_vertices, addv.val, 12)
        ri       == ReserveExact(n_indices, addi.val, 4)
    IN  [ final_faces    |-> ff.val,
          final_vertices |-> fv.val,
          final_indices  |-> fi.val,
          wrapped        |-> wrapped,
          allocates      |-> rv = "alloc" \/ ri = "alloc",
          outcome        |->
              IF bld = "debug" /\ num * 3 # n_indices THEN "assert"
              ELSE IF bld = "debug" /\ wrapped THEN "overflow"
              ELSE IF rv = "capacity" \/ ri = "capacity" THEN "capacity"
              ELSE "ok" ]

(* ------------------------------ state --------------------------------- *)

VARIABLES
    pc,                 \* where the call stands
    build,              \* "debug" | "release": debug assertions, overflow checks
    subdivison_level,   \* the argument of icosphere
    i, j, k,            \* the loop counters of create_icosahedron
    vertices,           \* Vec<Vector3<f32>>
    indices,            \* Vec<u32>
    radius,
    num_faces,
    final_vertices,
    final_indices,
    vertex_cache,       \* HashMap<(u32, u32), u32>
    pass,               \* the counter of the outer loop, line 41
    face,               \* the counter x of the inner loop, line 42
    lookups             \* history: per cache key, the requests made for it

vars == <<pc, build, subdivison_level, i, j, k, vertices, indices, radius,
          num_faces, final_vertices, final_indices, vertex_cache, pass, face,
          lookups>>

\* Levels past MaxLevel: the first whose vertex count leaves u32, and the
\* ones at which the size arithmetic and the reservations give way.
BigLevels == {15, 28, 30, 32}

Levels == (0..MaxLevel) \cup BigLevels

Builds == {"debug", "release"}

EmptyCache == [key \in {} |-> 0]

Init ==
    /\ pc = "base"
    /\ build \in Builds
    /\ subdivison_level \in Levels
    /\ i = 0 /\ j = 0 /\ k = 0
    /\ vertices = BaseVertices
    /\ indices = <<>>
    /\ radius = 0
    /\ num_faces = 0
    /\ final_vertices = U64(0)
    /\ final_indices = U64(0)
    /\ vertex_cache = EmptyCache
    /\ pass = 0
    /\ face = 0
    /\ lookups = EmptyCache

(* ------------------- create_icosahedron, lines 108-145 ---------------- *)

\* The loop counters after one more iteration of the three nested loops;
\* past (11, 11, 11) the function returns into icosphere, line 7.
Advance ==
    /\ k' = IF k < 11 THEN k + 1 ELSE 0
    /\ j' = IF k < 11 THEN j ELSE IF j < 11 THEN j + 1 ELSE 0
    /\ i' = IF k < 11 \/ j < 11 THEN i ELSE IF i < 11 THEN i + 1 ELSE 0
    /\ pc' = IF k = 11 /\ j = 11 /\ i = 11 THEN "prologue" ELSE "base"

IcosphereFrame ==
    UNCHANGED <<build, subdivison_level, radius, num_faces, final_vertices,
                final_indices, vertex_cache, pass, face, lookups>>

\* Lines 111-113: not i < j < k.
BaseSkip ==
    /\ pc = "base"
    /\ ~(i < j /\ j < k)
    /\ Advance
    /\ UNCHANGED <<vertices, indices>>
    /\ IcosphereFrame

\* Lines 114-123: a triple that fails the distance test.
BaseReject ==
    /\ pc = "base"
    /\ i < j /\ j < k
    /\ ~Equilateral(vertices, i, j, k)
    /\ Advance
    /\ UNCHANGED <<vertices, indices>>
    /\ IcosphereFrame

\* Lines 123-142: a triple that passes it is pushed as one face.
BaseEmit ==
    /\ pc = "base"
    /\ i < j /\ j < k
    /\ Equilateral(vertices, i, j, k)
    /\ indices' = indices \o EmittedFace(vertices, i, j, k)
    /\ Advance
    /\ UNCHANGED vertices
    /\ IcosphereFrame

(* -------------------------- icosphere, lines 9-20 --------------------- *)

\* Lines 9-20 when no check stops the call and the allocator serves it.
EnterSubdivision ==
    /\ pc = "prologue"
    /\ LET p == Prologue(subdivison_level, Len(vertices), Len(indices), build)
       IN  /\ p.outcome = "ok"
           /\ final_vertices' = p.final_vertices
           /\ final_indices' = p.final_indices
    /\ radius' = Magnitude(At(vertices, 0))
    /\ num_faces' = 20
    /\ vertex_cache' = EmptyCache
    /\ lookups' = EmptyCache
    /\ pass' = 0
    /\ face' = 0
    /\ pc' = "subdivide"
    /\ UNCHANGED <<build, subdivison_level, i, j, k, vertices, indices>>

\* Lines 11-18 when a debug assertion, an overflow check or the capacity
\* check of reserve_exact panics.
ProloguePanic ==
    /\ pc = "prologue"
    /\ Prologue(subdivison_level, Len(vertices), Len(indices), build).outcome # "ok"
    /\ pc' = "panicked"
    /\ UNCHANGED <<build, subdivison_level, i, j, k, vertices, indices, radius,
                   num_faces, final_vertices, final_indices, vertex_cache,
                   pass, face, lookups>>

\* Lines 17-18 when the allocator refuses the reservation: the process
\* aborts.
AllocationFailure ==
    /\ pc = "prologue"
    /\ LET p == Prologue(subdivison_level, Len(vertices), Len(indices), build)
       IN  p.outcome = "ok" /\ p.allocates
    /\ pc' = "aborted"
    /\ UNCHANGED <<build, subdivison_level, i, j, k, vertices, indices, radius,
                   num_faces, final_vertices, final_indices, vertex_cache,
                   pass, face, lookups>>

(* --------------------- get_middle_point, lines 21-39 ------------------ *)

\* Variant of CacheKey: the pair as given, without the swap of lines 22-24.
CacheKeyNoSwap(p0_idx, p1_idx) == <<p0_idx, p1_idx>>

\* Lines 22-24: the pair with the smaller index first.
CacheKey(p0_idx, p1_idx) ==
    IF p1_idx < p0_idx THEN <<p1_idx, p0_idx>> ELSE <<p0_idx, p1_idx>>

\* Variant of MidPoint: line 31 without normalize_to.
MidPointNoNormalize(p0, p1, r) == VAdd(p0, VScale(Scale \div 2, VSub(p1, p0)))

\* Line 31.
MidPoint(p0, p1, r) ==
    NormalizeTo(VAdd(p0, VScale(Scale \div 2, VSub(p1, p0))), r)

\* Variant of GetMiddlePoint: no lookup, every request appends a vertex.
GetMiddlePointNoCache(vs, cache, r, p0_idx, p1_idx) ==
    LET key   == CacheKey(p0_idx, p1_idx)
        mid   == MidPoint(At(vs, key[1]), At(vs, key[2]), r)
        index == Len(vs)
    IN  [vertices     |-> Append(vs, mid),
         vertex_cache |-> (key :> AsU32(index)) @@ cache,
         idx          |-> AsU32(index)]

\* Variant of GetMiddlePoint: vertices.len() is read after the push.
GetMiddlePointIndexAfterPush(vs, cache, r, p0_idx, p1_idx) ==
    LET key == CacheKey(p0_idx, p1_idx)
    IN  IF key \in DOMAIN cache
        THEN [vertices |-> vs, vertex_cache |-> cache, idx |-> cache[key]]
        ELSE LET mid   == MidPoint(At(vs, key[1]), At(vs, key[2]), r)
                 index == Len(Append(vs, mid))
             IN  [vertices     |-> Append(vs, mid),
                  vertex_cache |-> cache @@ (key :> AsU32(index)),
                  idx          |-> AsU32(index)]

\* Variant of GetMiddlePoint: the None arm pushes the vertex and forgets
\* the insert of line 35.
GetMiddlePointNoInsert(vs, cache, r, p0_idx, p1_idx) ==
    LET key == CacheKey(p0_idx, p1_idx)
    IN  IF key \in DOMAIN cache
        THEN [vertices |-> vs, vertex_cache |-> cache, idx |-> cache[key]]
        ELSE LET mid   == MidPoint(At(vs, key[1]), At(vs, key[2]), r)
                 index == Len(vs)
             IN  [vertices     |-> Append(vs, mid),
                  vertex_cache |-> cache,
                  idx          |-> AsU32(index)]

\* The closure applied to the vectors vs and the map cache: the vectors and
\* the map after the call, and the index it returns.
GetMiddlePoint(vs, cache, r, p0_idx, p1_idx) ==
    LET key == CacheKey(p0_idx, p1_idx)
    IN  IF key \in DOMAIN cache
        THEN [vertices |-> vs, vertex_cache |-> cache, idx |-> cache[key]]
        ELSE LET mid   == MidPoint(At(vs, key[1]), At(vs, key[2]), r)
                 index == Len(vs)
             IN  [vertices     |-> Append(vs, mid),
                  vertex_cache |-> cache @@ (key :> AsU32(index)),
                  idx          |-> AsU32(index)]

\* Which arm of the match of lines 26-38 a request took, seen from the
\* vectors before and after it: only the None arm pushes.
LookupOutcome(before, after) ==
    IF Len(after) = Len(before) THEN "hit" ELSE "miss"

\* The history with one more request for key, made during pass p.
RecordLookup(log, key, p, outcome) ==
    IF key \in DOMAIN log
    THEN [log EXCEPT ![key] = Append(@, <<p, outcome>>)]
    ELSE log @@ (key :> << <<p, outcome>> >>)

(* ------------------------ icosphere, lines 41-84 ---------------------- *)

\* Variant of SplitFace: lines 54-75 without the rewrite of lines 62-63.
SplitFaceNoRewrite(idx, offset, p3_idx, p4_idx, p5_idx) ==
    LET p1_idx == idx[offset + 2]
        p2_idx == idx[offset + 3]
    IN  idx \o <<p3_idx, p1_idx, p4_idx>>
            \o <<p5_idx, p4_idx, p2_idx>>
            \o <<p4_idx, p5_idx, p3_idx>>

\* Variant of SplitFace: lines 62-63 write p5 and p3 the other way round.
SplitFaceSwappedWrites(idx, offset, p3_idx, p4_idx, p5_idx) ==
    LET p1_idx == idx[offset + 2]
        p2_idx == idx[offset + 3]
    IN  [idx EXCEPT ![offset + 2] = p5_idx, ![offset + 3] = p3_idx]
            \o <<p3_idx, p1_idx, p4_idx>>
            \o <<p5_idx, p4_idx, p2_idx>>
            \o <<p4_idx, p5_idx, p3_idx>>

\* Lines 54-75 on the index buffer idx for the face at offset, given the
\* three midpoints.
SplitFace(idx, offset, p3_idx, p4_idx, p5_idx) ==
    LET p1_idx == idx[offset + 2]
        p2_idx == idx[offset + 3]
    IN  [idx EXCEPT ![offset + 2] = p3_idx, ![offset + 3] = p5_idx]
            \o <<p3_idx, p1_idx, p4_idx>>
            \o <<p5_idx, p4_idx, p2_idx>>
            \o <<p4_idx, p5_idx, p3_idx>>

\* Variant of SubdivideFace: the inner loop runs to the live face count,
\* indices.len() / 3, instead of the count captured in num_faces.
SubdivideFaceLiveCount ==
    /\ pc = "subdivide"
    /\ pass < subdivison_level
    /\ pass < MaxLevel
    /\ face < Len(indices) \div 3
    /\ LET offset == face * 3
           p0_idx == indices[offset + 1]
           p1_idx == indices[offset + 2]
           p2_idx == indices[offset + 3]
           m3     == GetMiddlePoint(vertices, vertex_cache, radius, p0_idx, p1_idx)
           m4     == GetMiddlePoint(m3.vertices, m3.vertex_cache, radius, p1_idx, p2_idx)
           m5     == GetMiddlePoint(m4.vertices, m4.vertex_cache, radius, p2_idx, p0_idx)
       IN  /\ vertices' = m5.vertices
           /\ vertex_cache' = m5.vertex_cache
           /\ lookups' =
                RecordLookup(
                  RecordLookup(
                    RecordLookup(lookups, CacheKey(p0_idx, p1_idx), pass,
                                 LookupOutcome(vertices, m3.vertices)),
                    CacheKey(p1_idx, p2_idx), pass,
                    LookupOutcome(m3.vertices, m4.vertices)),
                  CacheKey(p2_idx, p0_idx), pass,
                  LookupOutcome(m4.vertices, m5.vertices))
           /\ indices' = SplitFace(indices, offset, m3.idx, m4.idx, m5.idx)
    /\ face' = face + 1
    /\ UNCHANGED <<pc, build, subdivison_level, i, j, k, radius, num_faces,
                   final_vertices, final_indices, pass>>

\* One iteration of the inner loop, lines 42-76.  Runs of a level past
\* MaxLevel are followed for MaxLevel passes.
SubdivideFace ==
    /\ pc = "subdivide"
    /\ pass < subdivison_level
    /\ pass < MaxLevel
    /\ face < num_faces
    /\ LET offset == face * 3
           p0_idx == indices[offset + 1]
           p1_idx == indices[offset + 2]
           p2_idx == indices[offset + 3]
           m3     == GetMiddlePoint(vertices, vertex_cache, radius, p0_idx, p1_idx)
           m4     == GetMiddlePoint(m3.vertices, m3.vertex_cache, radius, p1_idx, p2_idx)
           m5     == GetMiddlePoint(m4.vertices, m4.vertex_cache, radius, p2_idx, p0_idx)
       IN  /\ vertices' = m5.vertices
           /\ vertex_cache' = m5.vertex_cache
           /\ lookups' =
                RecordLookup(
                  RecordLookup(
                    RecordLookup(lookups, CacheKey(p0_idx, p1_idx), pass,
                                 LookupOutcome(vertices, m3.vertices)),
                    CacheKey(p1_idx, p2_idx), pass,
                    LookupOutcome(m3.vertices, m4.vertices)),
                  CacheKey(p2_idx, p0_idx), pass,
                  LookupOutcome(m4.vertices, m5.vertices))
           /\ indices' = SplitFace(indices, offset, m3.idx, m4.idx, m5.idx)
    /\ face' = face + 1
    /\ UNCHANGED <<pc, build, subdivison_level, i, j, k, radius, num_faces,
                   final_vertices, final_indices, pass>>

\* Line 77, and the next iteration of the outer loop.
NextLevel ==
    /\ pc = "subdivide"
    /\ pass < subdivison_level
    /\ face = num_faces
    /\ num_faces' = num_faces * 4
    /\ pass' = pass + 1
    /\ face' = 0
    /\ UNCHANGED <<pc, build, subdivison_level, i, j, k, vertices, indices,
                   radius, final_vertices, final_indices, vertex_cache,
                   lookups>>

\* Lines 80-83: the two debug assertions, then the return.
Return ==
    /\ pc = "subdivide"
    /\ pass = subdivison_level
    /\ pc' = IF /\ build = "debug"
                /\ \/ final_vertices # U64(Len(vertices))
                   \/ final_indices # U64(Len(indices))
             THEN "panicked"
             ELSE "done"
    /\ UNCHANGED <<build, subdivison_level, i, j, k, vertices, indices, radius,
                   num_faces, final_vertices, final_indices, vertex_cache,
                   pass, face, lookups>>

Next ==
    \/ BaseSkip
    \/ BaseReject
    \/ BaseEmit
    \/ EnterSubdivision
    \/ ProloguePanic
    \/ AllocationFailure
    \/ SubdivideFace
    \/ NextLevel
    \/ Return

Spec == Init /\ [][Next]_vars

(* ------------------------- reading the mesh --------------------------- *)

NumFaces(idx) == Len(idx) \div 3

\* The face stored at slot f (0-based).
FaceAt(idx, f) == <<idx[3 * f + 1], idx[3 * f + 2], idx[3 * f + 3]>>

FaceSlots(idx) == 0..(NumFaces(idx) - 1)

UEdge(a, b) == IF a < b THEN <<a, b>> ELSE <<b, a>>

\* The three undirected edges of one face, as a bag.
FaceEdgeBag(t) ==
    SetToBag({UEdge(t[1], t[2])}) (+) SetToBag({UEdge(t[2], t[3])})
        (+) SetToBag({UEdge(t[3], t[1])})

RECURSIVE EdgeBag(_, _, _)
\* How often each undirected edge occurs in the faces lo..hi of idx.
EdgeBag(idx, lo, hi) ==
    IF hi < lo THEN EmptyBag
    ELSE IF lo = hi THEN FaceEdgeBag(FaceAt(idx, lo))
    ELSE LET mid == (lo + hi) \div 2
         IN  EdgeBag(idx, lo, mid) (+) EdgeBag(idx, mid + 1, hi)

\* The base mesh is built and `pass` subdivision levels are complete.
LevelComplete == pc \in {"subdivide", "done"} /\ face = 0

Returned == pc = "done"

(* ------------------------------- C1 ----------------------------------- *)

\* C1: after every completed level n the mesh has 20*4^n faces, 3*20*4^n
\* indices and 2 + 10*4^n vertices (so the pass from level n to n+1 appends
\* 30*4^n vertices), and at return the level is the requested one and the
\* sizes computed before subdivision equal the actual lengths.
C1_Sizes ==
    LevelComplete =>
        /\ num_faces = 20 * 4^pass
        /\ Len(indices) = 3 * 20 * 4^pass
        /\ Len(vertices) = 2 + 10 * 4^pass
        /\ Returned =>
              /\ pass = subdivison_level
              /\ final_vertices = U64(Len(vertices))
              /\ final_indices = U64(Len(indices))

C1_Witness ==
    /\ Returned
    /\ subdivison_level = 2
    /\ Len(vertices) = 162
    /\ Len(indices) = 960

(* ------------------------------- C2 ----------------------------------- *)

\* C2: in the returned index buffer every undirected edge that occurs in a
\* triangle occurs in exactly two triangles.
C2_Manifold ==
    Returned =>
        LET bag == EdgeBag(indices, 0, NumFaces(indices) - 1)
        IN  \A e \in DOMAIN bag : bag[e] = 2

C2_Witness ==
    /\ Returned
    /\ subdivison_level = 2
    /\ Cardinality(DOMAIN EdgeBag(indices, 0, NumFaces(indices) - 1)) = 480

(* ------------------------------- C3 ----------------------------------- *)

FaceWellFormed(t, n_vertices) ==
    /\ t[1] # t[2] /\ t[2] # t[3] /\ t[1] # t[3]
    /\ \A n \in 1..3 : t[n] >= 0 /\ t[n] < n_vertices

\* C3: after the base construction and after every completed level, the
\* three indices of every face are pairwise distinct and each is less than
\* the length of the vertex sequence.
C3_FacesWellFormed ==
    (pc = "prologue" \/ LevelComplete) =>
        \A f \in FaceSlots(indices) :
            FaceWellFormed(FaceAt(indices, f), Len(vertices))

C3_Witness ==
    /\ LevelComplete
    /\ pass = 2
    /\ \E f \in FaceSlots(indices) : FaceAt(indices, f)[3] = Len(vertices) - 1

(* ------------------------------- C4 ----------------------------------- *)

\* The three requests the next iteration of the inner loop makes.
NextRequests ==
    IF pc = "subdivide" /\ pass < subdivison_level /\ face < num_faces
    THEN LET t == FaceAt(indices, face)
         IN  {<<t[1], t[2]>>, <<t[2], t[3]>>, <<t[3], t[1]>>}
    ELSE {}

\* A request for (a, b) followed by one for (b, a): the second returns the
\* index of the first and appends nothing.
SymmetricAt(a, b) ==
    LET r1 == GetMiddlePoint(vertices, vertex_cache, radius, a, b)
        r2 == GetMiddlePoint(r1.vertices, r1.vertex_cache, radius, b, a)
    IN  /\ r2.idx = r1.idx
        /\ r2.vertices = r1.vertices
        /\ r2.vertex_cache = r1.vertex_cache
        /\ Len(r1.vertices) <= Len(vertices) + 1

\* C4: within one call the midpoint lookup is symmetric ((a,b) and (b,a)
\* give the same index, the repeat being a hit that appends nothing), one
\* vertex at most is appended per undirected edge, and two distinct edges
\* never have the same midpoint index.
C4_CacheSymmetricInjective ==
    pc \in {"subdivide", "done"} =>
        /\ \A q \in NextRequests : SymmetricAt(q[1], q[2])
        /\ \A key \in DOMAIN vertex_cache : key[1] < key[2]
        /\ Len(vertices) = 12 + Cardinality(DOMAIN vertex_cache)
        /\ Cardinality({vertex_cache[key] : key \in DOMAIN vertex_cache})
             = Cardinality(DOMAIN vertex_cache)
        /\ LevelComplete =>
              \A key \in DOMAIN vertex_cache :
                  /\ GetMiddlePoint(vertices, vertex_cache, radius,
                                    key[2], key[1]).idx = vertex_cache[key]
                  /\ GetMiddlePoint(vertices, vertex_cache, radius,
                                    key[1], key[2]).vertices = vertices

\* A request that hits an entry made through the reversed pair.
C4_Witness ==
    /\ pc = "subdivide"
    /\ \E q \in NextRequests :
          /\ q[2] < q[1]
          /\ <<q[2], q[1]>> \in DOMAIN vertex_cache

(* ------------------------------- C5 ----------------------------------- *)

\* (v1 - v0) x (v2 - v0) lies on the side of the centroid seen from the
\* origin: the face is counter-clockwise seen from outside.
Outward(vs, t) ==
    LET v0 == At(vs, t[1])
        v1 == At(vs, t[2])
        v2 == At(vs, t[3])
    IN  Dot(Cross(VSub(v1, v0), VSub(v2, v0)), VAdd(VAdd(v0, v1), v2)) > 0

\* C5: every triangle of the returned mesh is wound counter-clockwise when
\* viewed from outside the sphere.
C5_OutwardCCW ==
    Returned =>
        \A f \in FaceSlots(indices) : Outward(vertices, FaceAt(indices, f))

(* ------------------------------- C6 ----------------------------------- *)

Triples == {t \in (0..11) \X (0..11) \X (0..11) : t[1] < t[2] /\ t[2] < t[3]}

\* The side of the plane through the triple t on which vertex m lies.
PlaneSide(vs, t, m) ==
    LET o == At(vs, t[1])
    IN  Dot(Cross(VSub(At(vs, t[2]), o), VSub(At(vs, t[3]), o)),
            VSub(At(vs, m), o))

\* A triple is a face of the icosahedron (of the convex hull of the twelve
\* vertices) when the other nine vertices lie strictly on one side of it.
IsHullFace(vs, t) ==
    LET others == (0..11) \ {t[1], t[2], t[3]}
    IN  \/ \A m \in others : PlaneSide(vs, t, m) > 0
        \/ \A m \in others : PlaneSide(vs, t, m) < 0

HullFaces == {t \in Triples : IsHullFace(BaseVertices, t)}

\* The triple t has been through the loop body.
Scanned(t) ==
    \/ pc # "base"
    \/ t[1] * 144 + t[2] * 12 + t[3] < i * 144 + j * 12 + k

\* The vertex set of the face at slot f, and the triple i<j<k it came from.
FaceVertexSet(idx, f) == {FaceAt(idx, f)[n] : n \in 1..3}

SourceTriple(t) == IF t[2] < t[3] THEN t ELSE <<t[1], t[3], t[2]>>

\* C6: the search over the 220 triples i<j<k accepts a triple iff its three
\* pairwise distances are within 0.1 of 2; the accepted triples are exactly
\* the 20 faces of the icosahedron, and each is pushed as exactly one face
\* (60 indices).  While the loops run, every face pushed comes from a
\* triple i<j<k already passed, and no triple is pushed twice.
C6_BaseFaces ==
    /\ pc = "base" =>
          /\ \A f \in FaceSlots(indices) :
                /\ SourceTriple(FaceAt(indices, f)) \in Triples
                /\ Scanned(SourceTriple(FaceAt(indices, f)))
          /\ Cardinality({FaceVertexSet(indices, f) : f \in FaceSlots(indices)})
               = NumFaces(indices)
    /\ pc = "prologue" =>
          LET hull == HullFaces
          IN  /\ Cardinality(Triples) = 220
              /\ Cardinality(hull) = 20
              /\ Len(indices) = 60
              /\ {SourceTriple(FaceAt(indices, f)) : f \in FaceSlots(indices)} = hull
              /\ \A t \in Triples :
                    Equilateral(vertices, t[1], t[2], t[3]) <=> t \in hull

C6_Witness ==
    /\ pc = "prologue"
    /\ Len(indices) = 60
    /\ FaceAt(indices, 0) = <<0, 4, 3>>
    /\ <<0, 3, 4>> \in HullFaces

(* ------------------------------- C7 ----------------------------------- *)

\* The size arithmetic of the level wraps, or its vertex count is no u32.
IndexWidthExceeded(lvl) ==
    LET p == Prologue(lvl, 12, 60, "release")
    IN  p.wrapped \/ ~FitsU32(p.final_vertices)

\* C7: a level whose vertex count (or face arithmetic) does not fit the
\* index width makes icosphere fail before it produces any output: such a
\* call never gets to subdivide or to return.
C7_FailsFast ==
    IndexWidthExceeded(subdivison_level) =>
        pc \in {"base", "prologue", "panicked", "aborted"}

(* ------------------------------- C10 ---------------------------------- *)

\* C10: every vertex, base or midpoint, has the magnitude of the first base
\* vertex (the radius taken at line 9) within MagEps, and the vertex stored
\* for a cache entry is the 0.5 interpolation of the entry's two endpoints
\* rescaled to that radius.
C10_OnSphere ==
    LevelComplete =>
        /\ radius = Magnitude(BaseVertices[1])
        /\ \A n \in 1..Len(vertices) :
              Abs(Magnitude(vertices[n]) - radius) <= MagEps
        /\ \A key \in DOMAIN vertex_cache :
              At(vertices, vertex_cache[key])
                = MidPoint(At(vertices, key[1]), At(vertices, key[2]), radius)

\* A returned midpoint whose plain interpolation lies well inside the
\* sphere.
C10_Witness ==
    /\ Returned
    /\ subdivison_level = 2
    /\ \E key \in DOMAIN vertex_cache :
          LET p0 == At(vertices, key[1])
              p1 == At(vertices, key[2])
          IN  /\ radius - Magnitude(MidPointNoNormalize(p0, p1, radius)) > MagEps
              /\ Abs(Magnitude(At(vertices, vertex_cache[key])) - radius) <= MagEps

(* ------------------------------- C11 ---------------------------------- *)

\* C11: a qualifying triple i<j<k whose cross product (vj-vi) x (vk-vi)
\* agrees in sign on every axis with vi+vj+vk is pushed unswapped, as
\* (i,j,k); any other qualifying triple is pushed as (i,k,j).
C11_SwapWhenSignsDisagree ==
    pc \in {"base", "prologue"} =>
        \A f \in FaceSlots(indices) :
            LET t == FaceAt(indices, f)
                s == SourceTriple(t)
            IN  t = IF SignsAgree(vertices, s[1], s[2], s[3])
                    THEN s
                    ELSE <<s[1], s[3], s[2]>>

(* ------------------------------- C12 ---------------------------------- *)

\* The step is one iteration of the inner loop, on the face at slot `face`.
IsSubdivideStep == pc = "subdivide" /\ pc' = "subdivide" /\ face' = face + 1

\* C12: subdividing the face at slot s = (p0,p1,p2), with p3 = mid(p0,p1),
\* p4 = mid(p1,p2), p5 = mid(p2,p0), leaves slot s holding (p0,p3,p5),
\* appends exactly (p3,p1,p4), (p5,p4,p2), (p4,p5,p3) in that order, and
\* changes nothing else: every other slot and every existing vertex keep
\* their values, and at most three vertices are appended.
C12_SplitFrame ==
    [][ IsSubdivideStep =>
          LET s  == face
              n  == NumFaces(indices)
              t  == FaceAt(indices, s)
              p0 == t[1]
              p1 == t[2]
              p2 == t[3]
              k3 == UEdge(p0, p1)
              k4 == UEdge(p1, p2)
              k5 == UEdge(p2, p0)
          IN  /\ {k3, k4, k5} \subseteq DOMAIN vertex_cache'
              /\ LET p3 == vertex_cache'[k3]
                     p4 == vertex_cache'[k4]
                     p5 == vertex_cache'[k5]
                 IN  /\ FaceAt(indices', s) = <<p0, p3, p5>>
                     /\ Len(indices') = Len(indices) + 9
                     /\ FaceAt(indices', n) = <<p3, p1, p4>>
                     /\ FaceAt(indices', n + 1) = <<p5, p4, p2>>
                     /\ FaceAt(indices', n + 2) = <<p4, p5, p3>>
              /\ \A f \in FaceSlots(indices) \ {s} :
                    FaceAt(indices', f) = FaceAt(indices, f)
              /\ Len(vertices') >= Len(vertices)
              /\ Len(vertices') <= Len(vertices) + 3
              /\ SubSeq(vertices', 1, Len(vertices)) = vertices
      ]_vars

\* The first face of the base mesh, (0,4,3), has been subdivided.
C12_Witness ==
    /\ pc = "subdivide"
    /\ pass = 0
    /\ face = 1
    /\ FaceAt(indices, 0) = <<0, 12, 14>>
    /\ SubSeq(indices, 61, 69) = <<12, 4, 13, 14, 13, 3, 13, 14, 12>>

(* ------------------------------- C13 ---------------------------------- *)

\* C13: within a level the faces subdivided are the slots 0 .. F-1 of the
\* face count F = num_faces captured before the level's first append, one
\* per step in ascending order, each once: the step that subdivides slot
\* `face` finds face < F with exactly the slots below it split (3 children
\* each) and rewrites no other slot, so no face appended in the level is
\* a parent in it; F is multiplied by 4 only once all F slots are done.
C13_StableFaceCount ==
    [][ (pc = "subdivide" /\ pc' = "subdivide") =>
          \/ /\ face' = face + 1
             /\ face < num_faces
             /\ num_faces' = num_faces
             /\ pass' = pass
             /\ num_faces = 20 * 4^pass
             /\ Len(indices) = 3 * (num_faces + 3 * face)
             /\ FaceAt(indices', face) # FaceAt(indices, face)
             /\ \A f \in FaceSlots(indices) :
                   FaceAt(indices', f) # FaceAt(indices, f) => f = face
          \/ /\ face = num_faces
             /\ face' = 0
             /\ num_faces' = 4 * num_faces
             /\ pass' = pass + 1
             /\ indices' = indices
             /\ Len(indices) = 3 * 4 * num_faces
      ]_vars

\* The second level is complete and the count is not yet multiplied.
C13_Witness ==
    /\ pc = "subdivide"
    /\ pass = 1
    /\ num_faces = 80
    /\ face = 80
    /\ Len(indices) = 960

(* ------------------------------- C14 ---------------------------------- *)

\* The directed edges a face traverses.
FaceDirEdges(t) == {<<t[1], t[2]>>, <<t[2], t[3]>>, <<t[3], t[1]>>}

DirEdges(idx) == UNION {FaceDirEdges(FaceAt(idx, f)) : f \in FaceSlots(idx)}

\* No directed edge occurs twice (3 per face, all different), none is a
\* loop, and the reverse of each occurs: then in exactly one face, and in
\* another one, since a face without loops holds no edge and its reverse.
ConsistentlyOriented(idx) ==
    LET d == DirEdges(idx)
    IN  /\ Cardinality(d) = 3 * NumFaces(idx)
        /\ \A e \in d : e[1] # e[2] /\ <<e[2], e[1]>> \in d

\* The four children of the face split in this step run along the three
\* edges of the parent in the parent's direction, and the centre child
\* runs against the three inner edges of the corner children.
ChildrenFollowParent ==
    LET t  == FaceAt(indices, face)
        n  == NumFaces(indices)
        p0 == t[1]
        p1 == t[2]
        p2 == t[3]
        p3 == vertex_cache'[UEdge(p0, p1)]
        p4 == vertex_cache'[UEdge(p1, p2)]
        p5 == vertex_cache'[UEdge(p2, p0)]
        corners == FaceDirEdges(FaceAt(indices', face))
                     \cup FaceDirEdges(FaceAt(indices', n))
                     \cup FaceDirEdges(FaceAt(indices', n + 1))
        centre  == FaceDirEdges(FaceAt(indices', n + 2))
    IN  /\ {<<p0, p3>>, <<p3, p1>>, <<p1, p4>>, <<p4, p2>>, <<p2, p5>>, <<p5, p0>>}
             \subseteq corners
        /\ Cardinality(corners) = 9
        /\ centre = {<<e[2], e[1]>> : e \in corners} \cap centre
        /\ Cardinality(centre) = 3
        /\ corners \cap centre = {}

\* C14: in the base mesh and after every completed level each directed
\* edge occurs in at most one face and its reverse in exactly one other
\* face; every subdivision step gives the parent's direction to the
\* children along the parent's three edges.
C14_ConsistentOrientation ==
    /\ []((pc = "prologue" \/ LevelComplete) => ConsistentlyOriented(indices))
    /\ [][IsSubdivideStep => ChildrenFollowParent]_vars

C14_Witness ==
    /\ Returned
    /\ subdivison_level = 2
    /\ Cardinality(DirEdges(indices)) = 960
    /\ LET t == FaceAt(indices, 0)
       IN  \E f \in FaceSlots(indices) \ {0} :
               <<t[2], t[1]>> \in FaceDirEdges(FaceAt(indices, f))

(* ------------------------------- C15 ---------------------------------- *)

\* C15: every cache key is requested exactly twice in one call, first as
\* a miss and then as a hit, both in the same level (a key whose hit is
\* still to come was missed in the level under way), so no lookup hits an
\* entry of an earlier level; at return the cache holds 10*(4^L - 1)
\* entries and their values are the indices 12 .. V(L)-1, each once.
C15_TwoLookupsPerKey ==
    pc \in {"subdivide", "done"} =>
        /\ DOMAIN lookups = DOMAIN vertex_cache
        /\ \A key \in DOMAIN lookups :
              LET h == lookups[key]
              IN  /\ h[1][2] = "miss"
                  /\ Len(h) <= 2
                  /\ Len(h) = 1 => h[1][1] = pass /\ ~LevelComplete
                  /\ Len(h) = 2 => h[2] = <<h[1][1], "hit">>
        /\ Returned =>
              /\ Cardinality(DOMAIN vertex_cache) = 10 * (4^subdivison_level - 1)
              /\ {vertex_cache[key] : key \in DOMAIN vertex_cache}
                   = 12..(Len(vertices) - 1)
              /\ Len(vertices) = 12 + Cardinality(DOMAIN vertex_cache)

\* A key of the second level, missed and then hit in it, at return.
C15_Witness ==
    /\ Returned
    /\ subdivison_level = 2
    /\ \E key \in DOMAIN lookups :
          lookups[key] = << <<1, "miss">>, <<1, "hit">> >>

=============================================================================
